---------------------------- MODULE Spec2Model ----------------------------
(***************************************************************************)
(* A model of the graph inspector of src/src/graph_stats.cpp: the          *)
(* statistics aggregator, the sequential scanner of the raw graph layout   *)
(* (layout A/B), the sector-paged reader of the disk index (layout C) and  *)
(* the small-graph renderers.  Every function is a small state machine:    *)
(* one action for the code up to its loop, one action per loop iteration,  *)
(* one action for the code after the loop.                                 *)
(***************************************************************************)
EXTENDS Integers, Sequences, FiniteSets, TLC

VARIABLES
  pc,     \* position of the running function: "start", a loop label, "done"
  args,   \* the arguments of the call
  file,   \* the file the call reads (NoFile for the in-memory entry point)
  in,     \* the std::ifstream: [open, good, pos]
  s,      \* the GraphStats being returned
  loc,    \* the locals of the running function
  out     \* the lines written to the std::ostream

vars == <<pc, args, file, in, s, loc, out>>

(***************************************************************************)
(* Program constants.                                                      *)
(***************************************************************************)
kGraphHeaderSize == 24
kDiskIndexDataOffset == 4096
kSectorLen == 4096
kMetadataSize == 4096
kDefaultWeakThreshold == 2
SizeofU32 == 4
SizeofU64 == 8

(***************************************************************************)
(* Bounds of the model.                                                    *)
(***************************************************************************)
MaxNodes == 3       \* records in a layout-A file, lists of an in-memory graph
MaxSample == 3      \* largest requested sample size (num_nodes)

\* The degrees a record of the model can have: weak ones (0, 1) and one that is
\* not weak under the default threshold.
DegreeSamples == {0, 1, 3}
EntryPointSamples == {0, 7}
FrozenSamples == {0, 1, 5}
WeakThresholdSamples == {0, 2, 3}

\* Stands for std::numeric_limits<size_t>::max(), the start value of
\* degree_min: above every degree (a uint32, or a vector's size) the code can
\* compare it with.
SizeMax == 2^30 + (2^30 - 1)

Min(a, b) == IF a < b THEN a ELSE b
Max(a, b) == IF a > b THEN a ELSE b

RECURSIVE SumSeq(_)
SumSeq(q) == IF q = <<>> THEN 0 ELSE Head(q) + SumSeq(Tail(q))

RECURSIVE MinSeq(_)
MinSeq(q) == IF Len(q) = 1 THEN q[1] ELSE Min(Head(q), MinSeq(Tail(q)))

RECURSIVE MaxSeq(_)
MaxSeq(q) == IF Len(q) = 1 THEN q[1] ELSE Max(Head(q), MaxSeq(Tail(q)))

\* All sequences over S of length 0..n.
SeqUpTo(S, n) == UNION {[1..k -> S] : k \in 0..n}

(***************************************************************************)
(* 64-bit unsigned arithmetic.  A uint64_t is its eight little-endian      *)
(* bytes, as it lies in the file; sums and products wrap modulo 2^64.      *)
(***************************************************************************)
LimbBase == 2^8
NumLimbs == SizeofU64

Zeros(n) == [i \in 1..n |-> 0]
Pad(x, n) == x \o Zeros(n - Len(x))
Trunc(x, n) == SubSeq(x, 1, n)

RECURSIVE ToLimbs(_, _)
ToLimbs(v, n) == IF n = 0 THEN <<>> ELSE <<v % LimbBase>> \o ToLimbs(v \div LimbBase, n - 1)

\* The uint64_t holding the small number v.
U64(v) == ToLimbs(v, NumLimbs)

RECURSIVE AddCarry(_, _, _, _)
AddCarry(a, b, i, c) ==
  IF i > Len(a) THEN <<c>>
  ELSE LET t == a[i] + b[i] + c
       IN  <<t % LimbBase>> \o AddCarry(a, b, i + 1, t \div LimbBase)

\* The exact sum of two numbers of n limbs: n + 1 limbs.
AddWide(a, b) == AddCarry(a, b, 1, 0)

RECURSIVE MulLimbCarry(_, _, _, _)
MulLimbCarry(a, d, i, c) ==
  IF i > Len(a) THEN <<c>>
  ELSE LET t == a[i] * d + c
       IN  <<t % LimbBase>> \o MulLimbCarry(a, d, i + 1, t \div LimbBase)

RECURSIVE MulAcc(_, _, _)
MulAcc(a, b, i) ==
  IF i > Len(b) THEN Zeros(2 * NumLimbs)
  ELSE IF b[i] = 0 THEN MulAcc(a, b, i + 1)
  ELSE Trunc(AddWide(Pad(Zeros(i - 1) \o MulLimbCarry(a, b[i], 1, 0), 2 * NumLimbs),
                     MulAcc(a, b, i + 1)), 2 * NumLimbs)

\* The exact product of two uint64_t: 16 limbs.
MulWide(a, b) == MulAcc(a, b, 1)

RECURSIVE LessFrom(_, _, _)
LessFrom(a, b, i) ==
  IF i = 0 THEN FALSE
  ELSE IF a[i] # b[i] THEN a[i] < b[i]
  ELSE LessFrom(a, b, i - 1)

\* a < b, for numbers of the same number of limbs.
Less(a, b) == LessFrom(a, b, Len(a))
LessEq(a, b) == ~Less(b, a)

RECURSIVE SubBorrow(_, _, _, _)
SubBorrow(a, b, i, c) ==
  IF i > Len(a) THEN <<>>
  ELSE LET t == a[i] - b[i] - c
       IN  <<(t + LimbBase) % LimbBase>> \o SubBorrow(a, b, i + 1, IF t < 0 THEN 1 ELSE 0)

\* a - b modulo LimbBase^Len(a).
SubLimbs(a, b) == SubBorrow(a, b, 1, 0)

Add64(a, b) == Trunc(AddWide(a, b), NumLimbs)
Sub64(a, b) == SubLimbs(a, b)
Mul64(a, b) == Trunc(MulWide(a, b), NumLimbs)

Bit(a, k) == (a[(k \div 8) + 1] \div (2^(k % 8))) % 2

\* Long division, bit by bit from the top: q the quotient so far, r the
\* remainder so far (one limb wider than a uint64_t, as 2r + 1 can be).
RECURSIVE DivBits(_, _, _, _, _)
DivBits(a, b, k, q, r) ==
  IF k < 0 THEN q
  ELSE LET r2 == Trunc(AddCarry(r, r, 1, Bit(a, k)), NumLimbs + 1)
           b9 == Pad(b, NumLimbs + 1)
       IN  IF Less(r2, b9)
           THEN DivBits(a, b, k - 1, q, r2)
           ELSE DivBits(a, b, k - 1,
                        [q EXCEPT ![(k \div 8) + 1] = @ + 2^(k % 8)],
                        SubLimbs(r2, b9))

\* The number of limbs of a up to its highest limb that is not zero.
RECURSIVE TopLimb(_, _)
TopLimb(a, i) == IF i = 0 \/ a[i] # 0 THEN i ELSE TopLimb(a, i - 1)

\* a / b of two uint64_t, b # 0 (the bits above a's highest limb are zero and
\* leave quotient and remainder zero).
Div64(a, b) ==
  DivBits(a, b, 8 * TopLimb(a, NumLimbs) - 1, Zeros(NumLimbs), Zeros(NumLimbs + 1))

\* The number a uint64_t holds, when it is below 2^31.
IsSmall(x) == x[4] < 128 /\ \A i \in 5..NumLimbs : x[i] = 0
ToNat(x) == x[1] + LimbBase * x[2] + LimbBase^2 * x[3] + LimbBase^3 * x[4]

\* static_cast<unsigned>(x): the low 32 bits.
LowU32(x) == Pad(Trunc(x, SizeofU32), NumLimbs)


(***************************************************************************)
(* GraphStats and the statistics aggregator.  degree_avg, a double, is     *)
(* kept as the fraction <<total_edges, nodes>> it is computed from; 0.0 is *)
(* <<0, 1>>.                                                               *)
(***************************************************************************)
ZeroStats ==
  [total_nodes |-> 0, active_nodes |-> 0, frozen_nodes |-> 0, total_edges |-> 0,
   degree_min |-> 0, degree_avg |-> <<0, 1>>, degree_max |-> 0, weak_count |-> 0,
   entry_point |-> 0]

NoFile == [exists |-> FALSE]
NoStream == [open |-> FALSE, good |-> FALSE, pos |-> 0]
NoArgs == [fn |-> "none"]
NoLocals == [fn |-> "none"]

\* total_edges, degree_min, degree_max, weak_count before the first node.
InitAcc ==
  [total_edges |-> 0, degree_min |-> SizeMax, degree_max |-> 0, weak_count |-> 0]

IsWeakLe(deg, weak_threshold) == deg <= weak_threshold
IsWeak(deg, weak_threshold) == deg < weak_threshold

NewDegreeMinKeep(degree_min, deg) == degree_min
NewDegreeMin(degree_min, deg) == IF deg < degree_min THEN deg ELSE degree_min

NewDegreeMaxLast(degree_max, deg) == deg
NewDegreeMax(degree_max, deg) == IF deg > degree_max THEN deg ELSE degree_max

\* One node of degree deg fed to the running sums.
Accumulate(acc, deg, weak_threshold) ==
  [total_edges |-> acc.total_edges + deg,
   degree_min  |-> NewDegreeMin(acc.degree_min, deg),
   degree_max  |-> NewDegreeMax(acc.degree_max, deg),
   weak_count  |-> IF IsWeak(deg, weak_threshold) THEN acc.weak_count + 1
                   ELSE acc.weak_count]

\* The sentinel of an empty scan collapses to 0.
CollapseMin(degree_min) == IF degree_min = SizeMax THEN 0 ELSE degree_min

\* static_cast<double>(total_edges) / static_cast<double>(nodes), nodes > 0.
AvgOf(total_edges, nodes) == <<total_edges, nodes>>

\* The statistics a scan of the degrees ds is to give (the aggregator's
\* contract, independent of the loop that computes it).
WeakIn(ds, thr) == Cardinality({i \in 1..Len(ds) : ds[i] < thr})
DegreesOf(recs) == [i \in 1..Len(recs) |-> Len(recs[i])]

(***************************************************************************)
(* compute_graph_stats: the in-memory entry point.                         *)
(***************************************************************************)
\* One neighbor list per degree of the model; the statistics read only sizes.
NbrList(d) == [i \in 1..d |-> i - 1]
ListSamples == {NbrList(d) : d \in DegreeSamples}

MemArgs ==
  {a \in [fn : {"compute_graph_stats"}, graph : SeqUpTo(ListSamples, MaxNodes),
          nd : 0..MaxNodes, num_frozen_pts : 0..1, ep : EntryPointSamples,
          weak_threshold : WeakThresholdSamples] :
     \* at most one position past the lists the caller holds
     a.nd + a.num_frozen_pts <= Len(a.graph) + 1}

InitMem ==
  /\ pc = "start"
  /\ args \in MemArgs
  /\ file = NoFile
  /\ in = NoStream
  /\ s = ZeroStats
  /\ loc = NoLocals
  /\ out = <<>>

\* Lines 28-41: the counts and the entry point are stored before the empty
\* graph returns.
MemBegin ==
  /\ pc = "start"
  /\ args.fn = "compute_graph_stats"
  /\ LET total == args.nd + args.num_frozen_pts
     IN  /\ s' = [ZeroStats EXCEPT !.total_nodes = total,
                                   !.active_nodes = args.nd,
                                   !.frozen_nodes = args.num_frozen_pts,
                                   !.entry_point = args.ep]
         /\ IF total = 0
            THEN pc' = "done" /\ loc' = loc
            ELSE pc' = "mem_loop" /\ loc' = [fn |-> "mem", i |-> 0, acc |-> InitAcc]
  /\ UNCHANGED <<args, file, in, out>>

\* Lines 43-52: one iteration.  graph[i] past the end of the vector is
\* undefined: any size, or a crash.
MemLoop ==
  /\ pc = "mem_loop"
  /\ loc.i < s.total_nodes
  /\ \/ /\ loc.i < Len(args.graph)
        /\ loc' = [loc EXCEPT !.i = @ + 1,
                     !.acc = Accumulate(@, Len(args.graph[loc.i + 1]), args.weak_threshold)]
        /\ pc' = pc
     \/ /\ loc.i >= Len(args.graph)
        /\ \E deg \in DegreeSamples :
             loc' = [loc EXCEPT !.i = @ + 1,
                       !.acc = Accumulate(@, deg, args.weak_threshold)]
        /\ pc' = pc
     \/ /\ loc.i >= Len(args.graph)
        /\ loc' = loc
        /\ pc' = "crashed"
  /\ UNCHANGED <<args, file, in, s, out>>

\* Lines 54-59.
MemFinish ==
  /\ pc = "mem_loop"
  /\ ~(loc.i < s.total_nodes)
  /\ s' = [s EXCEPT !.total_edges = loc.acc.total_edges,
                    !.degree_min = CollapseMin(loc.acc.degree_min),
                    !.degree_avg = AvgOf(loc.acc.total_edges, s.total_nodes),
                    !.degree_max = loc.acc.degree_max,
                    !.weak_count = loc.acc.weak_count]
  /\ pc' = "done"
  /\ UNCHANGED <<args, file, in, loc, out>>

NextMem == MemBegin \/ MemLoop \/ MemFinish

SpecMem == InitMem /\ [][NextMem]_vars

(***************************************************************************)
(* Layout A/B: the raw graph.  A file is what a writer laid down, cut to   *)
(* len bytes: pre bytes before the graph (0, or the 4096 metadata bytes of *)
(* a single-file index), the 24-byte header hdr, then the records recs,    *)
(* each a degree and that many neighbor ids, as the 32-bit words `words`.  *)
(* Every byte                                                              *)
(* string is such a file: it parses into whole records and at most one     *)
(* record that is cut short.                                               *)
(***************************************************************************)
RECURSIVE EncodeRecords(_)
EncodeRecords(recs) ==
  IF recs = <<>> THEN <<>>
  ELSE <<Len(Head(recs))>> \o Head(recs) \o EncodeRecords(Tail(recs))

\* Bytes of the records recs in the file.
RecordBytes(recs) == SizeofU32 * Len(EncodeRecords(recs))

\* The expected_total_size a writer stores for the records recs.
ExactSize(recs) == kGraphHeaderSize + RecordBytes(recs)

\* Length of the whole file when nothing is cut.
FullLen(f) == f.pre + kGraphHeaderSize + RecordBytes(f.recs)

\* Where a file can end: before the header, inside the header, inside the
\* first degree field, after any whole word of the body, or at its full length.
CutPoints(pre, recs) ==
  {0, pre + 10, pre + kGraphHeaderSize + 2}
  \cup {pre + kGraphHeaderSize + SizeofU32 * w : w \in 0..Len(EncodeRecords(recs))}

\* Header values of expected_total_size: the writer's, one below the header
\* size, one inside the first record or on its boundary, one that is no
\* multiple of four, one past the end of the file.
ExpectedSamples(recs) ==
  {ExactSize(recs), 0, kGraphHeaderSize + SizeofU32, ExactSize(recs) + 2,
   ExactSize(recs) + SizeofU32}

GraphFile(pre, recs, len, e, ep, fr) ==
  [exists |-> TRUE, pre |-> pre, recs |-> recs, words |-> EncodeRecords(recs),
   len |-> len,
   hdr |-> [expected_file_size |-> e, width |-> 64, ep |-> ep, num_frozen_pts |-> fr]]

GraphFiles(RecSet) ==
  {NoFile} \cup
  UNION {UNION {{GraphFile(pre, recs, len, e, ep, fr) :
                   len \in CutPoints(pre, recs), e \in ExpectedSamples(recs),
                   ep \in EntryPointSamples, fr \in FrozenSamples} :
                recs \in RecSet} :
         pre \in {0, kMetadataSize}}

\* std::istream::read of n bytes at pos succeeds when the file holds them all;
\* a read that ends exactly at the end of the file sets no flag.
CanRead(f, pos, n) == pos + n <= f.len

\* The 32-bit word of the body at byte position pos.
WordAt(f, pos) == f.words[((pos - f.pre - kGraphHeaderSize) \div SizeofU32) + 1]

\* bytes_read after a record of degree k (lines 114, 191, 244).
NextBytesReadNoDegree(bytes_read, k) == bytes_read + k * SizeofU32
NextBytesRead(bytes_read, k) == bytes_read + SizeofU32 + k * SizeofU32

(***************************************************************************)
(* compute_graph_stats_from_file.                                          *)
(***************************************************************************)
StatsRecords == SeqUpTo(ListSamples, MaxNodes)

InitFile ==
  /\ pc = "start"
  /\ file \in GraphFiles(StatsRecords)
  /\ args = [fn |-> "compute_graph_stats_from_file",
             offset |-> IF file.exists THEN file.pre ELSE 0]
  /\ in = NoStream
  /\ s = ZeroStats
  /\ loc = NoLocals
  /\ out = <<>>

\* Lines 63-94: open, seek to the header, read its four fields.  A seek past
\* the end of a file succeeds; the read after it fails.
FileBegin ==
  /\ pc = "start"
  /\ args.fn = "compute_graph_stats_from_file"
  /\ IF ~file.exists
     THEN /\ pc' = "done" /\ s' = ZeroStats /\ in' = in /\ loc' = loc
     ELSE IF ~CanRead(file, args.offset, kGraphHeaderSize)
     THEN /\ pc' = "done" /\ s' = ZeroStats /\ loc' = loc
          /\ in' = [open |-> TRUE, good |-> FALSE, pos |-> args.offset]
     ELSE /\ pc' = "file_scan"
          /\ s' = [ZeroStats EXCEPT !.entry_point = file.hdr.ep,
                                    !.frozen_nodes = file.hdr.num_frozen_pts]
          /\ in' = [open |-> TRUE, good |-> TRUE, pos |-> args.offset + kGraphHeaderSize]
          /\ loc' = [fn |-> "file",
                     expected_file_size |-> file.hdr.expected_file_size,
                     num_frozen_pts |-> file.hdr.num_frozen_pts,
                     bytes_read |-> kGraphHeaderSize,
                     acc |-> InitAcc, nodes |-> 0]
  /\ UNCHANGED <<args, file, out>>

FileLoopCondNoGood == loc.bytes_read # loc.expected_file_size
FileLoopCond == loc.bytes_read # loc.expected_file_size /\ in.good

\* Lines 96-115: one iteration.  The degree is counted as soon as it is read;
\* the neighbor ids are skipped by a seek, which succeeds past the end too.
FileScan ==
  /\ pc = "file_scan"
  /\ FileLoopCond
  /\ IF ~CanRead(file, in.pos, SizeofU32)
     THEN /\ in' = [in EXCEPT !.good = FALSE]
          /\ loc' = loc
     ELSE LET k == WordAt(file, in.pos)
          IN  /\ in' = [in EXCEPT !.pos = @ + SizeofU32 + k * SizeofU32]
              /\ loc' = [loc EXCEPT !.acc = Accumulate(@, k, kDefaultWeakThreshold),
                                    !.nodes = @ + 1,
                                    !.bytes_read = NextBytesRead(@, k)]
  /\ UNCHANGED <<pc, args, file, s, out>>

\* active_nodes (line 118).
ActiveOf(nodes, num_frozen_pts) ==
  IF nodes >= num_frozen_pts THEN nodes - num_frozen_pts ELSE 0

\* Lines 117-124.
FileFinish ==
  /\ pc = "file_scan"
  /\ ~FileLoopCond
  /\ s' = [s EXCEPT !.total_nodes = loc.nodes,
                    !.active_nodes = ActiveOf(loc.nodes, loc.num_frozen_pts),
                    !.total_edges = loc.acc.total_edges,
                    !.degree_min = CollapseMin(loc.acc.degree_min),
                    !.degree_avg = IF loc.nodes > 0
                                   THEN AvgOf(loc.acc.total_edges, loc.nodes)
                                   ELSE <<0, 1>>,
                    !.degree_max = loc.acc.degree_max,
                    !.weak_count = loc.acc.weak_count]
  /\ pc' = "done"
  /\ UNCHANGED <<args, file, in, loc, out>>

NextFile == FileBegin \/ FileScan \/ FileFinish

SpecFile == InitFile /\ [][NextFile]_vars

(***************************************************************************)
(* Layout C: the disk index.  The file is its first 48 bytes hdr (fewer    *)
(* when the file is shorter), padding up to the body offset 4096, and the  *)
(* whole 4096-byte pages `pages` that follow.  A page is the bytes a       *)
(* writer of geometry g laid down for the nodes it holds: per node         *)
(* g.coords coordinate bytes (zero here), the degree field, the neighbor   *)
(* ids, zero padding up to g.mnl; zero after the last node.                *)
(***************************************************************************)
\* elem_size (lines 15-22).
elem_size(t) ==
  CASE t = "kFloat" -> 4
    [] t = "kUint8" -> 1
    [] t = "kInt8" -> 1
    [] OTHER -> 4

DataTypes == {"kFloat", "kUint8", "kInt8"}

\* 2^62 and 2^64 - 4 as uint64_t.
TwoTo62 == [i \in 1..NumLimbs |-> IF i = NumLimbs THEN 64 ELSE 0]
MinusFour == [i \in 1..NumLimbs |-> IF i = 1 THEN 252 ELSE 255]
TwoTo32 == [i \in 1..NumLimbs |-> IF i = 5 THEN 1 ELSE 0]

\* The geometries files of the model are written with: two records to a
\* page, three to a page (16 bytes of the page unused), one to a page.
WriterGeometries ==
  {[ndims |-> 2, esz |-> 4, mnl |-> 2048, nps |-> 2],
   [ndims |-> 4, esz |-> 1, mnl |-> 1360, nps |-> 3],
   [ndims |-> 1, esz |-> 4, mnl |-> 4096, nps |-> 1]}

\* The five uint64 fields a writer of geometry g stores for n nodes.
TrueFields(g, n) ==
  [n_nodes |-> U64(n), n_dims |-> U64(g.ndims), medoid |-> U64(7),
   max_node_len |-> U64(g.mnl), nnodes_per_sector |-> U64(g.nps)]

\* Headers of the model: the writer's, and ones that differ from it in one
\* field.
HeaderFields(g, n) ==
  LET f == TrueFields(g, n)
  IN  {f,
       [f EXCEPT !.nnodes_per_sector = U64(0)],
       [f EXCEPT !.nnodes_per_sector = U64(g.nps + 1)],
       [f EXCEPT !.max_node_len = U64(5000)],
       [f EXCEPT !.max_node_len = U64(g.ndims * g.esz + 3)],
       [f EXCEPT !.n_dims = Add64(U64(g.ndims), TwoTo62)],
       [f EXCEPT !.n_dims = IF g.esz = 4 THEN Sub64(TwoTo62, U64(1)) ELSE MinusFour],
       [f EXCEPT !.medoid = Add64(TwoTo32, U64(7))],
       [f EXCEPT !.n_nodes = U64(n + 1)]}

FieldBytes(f) ==
  f.n_nodes \o f.n_dims \o f.medoid \o f.max_node_len \o f.nnodes_per_sector

\* The first 48 bytes of a file with the (npts_meta, ndims_meta) tag of
\* save_bin<uint64_t> before the fields, and of a file without it.
TaggedHeader(f) == ToLimbs(9, SizeofU32) \o ToLimbs(1, SizeofU32) \o FieldBytes(f)
UntaggedHeader(f) == FieldBytes(f) \o Zeros(SizeofU64)

\* The node records of page p (from 0) of a file of geometry g.
PageOf(g, nodes, p) ==
  [mnl |-> g.mnl, coords |-> g.ndims * g.esz,
   recs |-> SubSeq(nodes, p * g.nps + 1, Min((p + 1) * g.nps, Len(nodes)))]

PagesNeeded(n, nps) == (n + nps - 1) \div nps

AllPages(g, nodes) == [p \in 1..PagesNeeded(Len(nodes), g.nps) |-> PageOf(g, nodes, p - 1)]

DiskFile(g, nodes, hdr, npages) ==
  [exists |-> TRUE, g |-> g, nodes |-> nodes, hdr |-> hdr,
   pages |-> Trunc(AllPages(g, nodes), npages)]

\* Files of geometry g holding the nodes `nodes`: every header of the model
\* before every number of whole pages, and files that end inside the header.
DiskFilesOf(g, nodes) ==
  {DiskFile(g, nodes, TaggedHeader(f), np) :
     f \in HeaderFields(g, Len(nodes)), np \in 0..PagesNeeded(Len(nodes), g.nps)}
  \cup {DiskFile(g, nodes, UntaggedHeader(TrueFields(g, Len(nodes))),
                 PagesNeeded(Len(nodes), g.nps))}
  \cup {DiskFile(g, nodes, Trunc(TaggedHeader(TrueFields(g, Len(nodes))), cut), 0) :
          cut \in {4, 44}}

DiskFiles(NodeSet) ==
  {NoFile} \cup UNION {UNION {DiskFilesOf(g, nodes) : nodes \in NodeSet} : g \in WriterGeometries}

\* The byte of a page at offset o (0..4095).
PageByte(page, o) ==
  LET slot == o \div page.mnl
      f == o % page.mnl
  IN  IF slot >= Len(page.recs) \/ f < page.coords THEN 0
      ELSE LET w == (f - page.coords) \div SizeofU32
               b == (f - page.coords) % SizeofU32
               r == page.recs[slot + 1]
               v == IF w = 0 THEN r.deg
                    ELSE IF w <= Len(r.nbrs) THEN r.nbrs[w]
                    ELSE 0
           IN  (v \div (LimbBase^b)) % LimbBase

\* memcpy of a uint32_t out of the page buffer at offset o, o + 4 <= 4096.
PageU32(page, o) ==
  PageByte(page, o) + LimbBase * PageByte(page, o + 1)
  + LimbBase^2 * PageByte(page, o + 2) + LimbBase^3 * PageByte(page, o + 3)

\* The uint64_t at byte offset o of the header bytes.
FieldAt(hdr, o) == SubSeq(hdr, o + 1, o + SizeofU64)

\* meta_npts >= 5: the first four bytes as a signed 32-bit integer.
MetaNptsUnsigned(hdr) ==
  hdr[4] > 0 \/ hdr[3] > 0 \/ hdr[2] > 0 \/ hdr[1] >= 5
MetaNptsAtLeast5(hdr) ==
  /\ hdr[4] < 128
  /\ (hdr[4] > 0 \/ hdr[3] > 0 \/ hdr[2] > 0 \/ hdr[1] >= 5)

\* Lines 285-308 (and 375-397, 454-476): the two 4-byte tag reads, then the
\* five fields after the tag, or, the stream cleared and rewound, from the
\* start of the file.  good as the stream is after the last read.  (The
\* Padded variant takes the missing bytes of a cut header as zero.)
ResolveHeaderPadded(f) ==
  LET b == Pad(f.hdr, 2 * SizeofU32 + 5 * SizeofU64)
      tagged == MetaNptsAtLeast5(b)
      base == IF tagged THEN 2 * SizeofU32 ELSE 0
  IN  [good |-> TRUE, tagged |-> tagged,
       disk_nnodes |-> FieldAt(b, base),
       disk_ndims |-> FieldAt(b, base + 8),
       medoid_id_on_file |-> FieldAt(b, base + 16),
       max_node_len |-> FieldAt(b, base + 24),
       nnodes_per_sector |-> FieldAt(b, base + 32)]
ResolveHeader(f) ==
  LET n == Len(f.hdr)
      tagged == n >= 2 * SizeofU32 /\ MetaNptsAtLeast5(f.hdr)
      base == IF tagged THEN 2 * SizeofU32 ELSE 0
      good == n >= base + 5 * SizeofU64
  IN  [good |-> good, tagged |-> tagged,
       disk_nnodes |-> IF good THEN FieldAt(f.hdr, base) ELSE Zeros(NumLimbs),
       disk_ndims |-> IF good THEN FieldAt(f.hdr, base + 8) ELSE Zeros(NumLimbs),
       medoid_id_on_file |-> IF good THEN FieldAt(f.hdr, base + 16) ELSE Zeros(NumLimbs),
       max_node_len |-> IF good THEN FieldAt(f.hdr, base + 24) ELSE Zeros(NumLimbs),
       nnodes_per_sector |-> IF good THEN FieldAt(f.hdr, base + 32) ELSE Zeros(NumLimbs)]

\* data_dim * esz, as the code computes it.
CoordBytes(h, esz) == Mul64(h.disk_ndims, U64(esz))

\* The sanity check of lines 312, 400, 479: TRUE when the header is rejected.
GeometryRejects(h, esz) ==
  \/ Less(h.max_node_len, Add64(CoordBytes(h, esz), U64(SizeofU32)))
  \/ Less(U64(kSectorLen), h.max_node_len)

\* n_sectors (lines 334, 406, 490).
NumSectors(h) ==
  Div64(Sub64(Add64(h.disk_nnodes, h.nnodes_per_sector), U64(1)), h.nnodes_per_sector)

\* node_id (lines 342, 415, 499).
NodeIdNoSector(h, sec, j) == U64(j)
NodeId(h, sec, j) == Add64(Mul64(U64(sec), h.nnodes_per_sector), U64(j))

\* offset_in_sector (lines 346, 419, 503).
OffsetInSector(h, j) == Mul64(U64(j), h.max_node_len)

\* The bounds check of lines 347, 420, 504: TRUE when the slot is given up.
DegreeOverruns(h, esz, j) ==
  Less(U64(kSectorLen),
       Add64(Add64(OffsetInSector(h, j), CoordBytes(h, esz)), U64(SizeofU32)))

\* Where the degree field is copied from: offset_in_sector + data_dim * esz
\* added to sector.data(), in size_t.
DegreeOffset(h, esz, j) == Add64(OffsetInSector(h, j), CoordBytes(h, esz))

\* n bytes at the offset o lie inside the 4096-byte buffer.
InsideSector(o, n) == IsSmall(o) /\ ToNat(o) + n <= kSectorLen

(***************************************************************************)
(* compute_graph_stats_from_disk_index.                                    *)
(***************************************************************************)
\* Node records of the model: the degree field and the neighbor ids stored.
NodeRec(d) == [deg |-> d, nbrs |-> NbrList(d)]
StatsNodes == SeqUpTo({NodeRec(d) : d \in DegreeSamples}, MaxNodes)

InitDisk ==
  /\ pc = "start"
  /\ file \in DiskFiles(StatsNodes)
  /\ args \in [fn : {"compute_graph_stats_from_disk_index"}, data_type : DataTypes]
  /\ in = NoStream
  /\ s = ZeroStats
  /\ loc = NoLocals
  /\ out = <<>>

\* Lines 276-335: open, resolve the header, check the geometry, store the
\* header's counts, give up on records_per_page = 0, seek to the body.
DiskBegin ==
  /\ pc = "start"
  /\ args.fn = "compute_graph_stats_from_disk_index"
  /\ IF ~file.exists
     THEN /\ pc' = "done" /\ s' = ZeroStats /\ in' = in /\ loc' = loc
     ELSE LET h == ResolveHeader(file)
              esz == elem_size(args.data_type)
              l == [fn |-> "disk", h |-> h, esz |-> esz, rejected |-> FALSE,
                    n_sectors |-> Zeros(NumLimbs), sec |-> 0, j |-> 0,
                    acc |-> InitAcc, fed |-> <<>>, pages_read |-> 0, wild |-> FALSE]
          IN  IF ~h.good
              THEN /\ pc' = "done" /\ s' = ZeroStats /\ loc' = l
                   /\ in' = [open |-> TRUE, good |-> FALSE, pos |-> 0]
              ELSE IF GeometryRejects(h, esz)
              THEN /\ pc' = "done" /\ s' = ZeroStats
                   /\ loc' = [l EXCEPT !.rejected = TRUE]
                   /\ in' = [open |-> TRUE, good |-> TRUE, pos |-> 0]
              ELSE /\ s' = [ZeroStats EXCEPT
                              !.total_nodes = ToNat(h.disk_nnodes),
                              !.active_nodes = ToNat(h.disk_nnodes),
                              !.entry_point = ToNat(LowU32(h.medoid_id_on_file))]
                   /\ in' = [open |-> TRUE, good |-> TRUE, pos |-> kDiskIndexDataOffset]
                   /\ IF h.nnodes_per_sector = U64(0)
                      THEN pc' = "done" /\ loc' = l
                      ELSE pc' = "disk_page" /\ loc' = [l EXCEPT !.n_sectors = NumSectors(h)]
  /\ UNCHANGED <<args, file, out>>

DiskLoopCond == Less(U64(loc.sec), loc.n_sectors) /\ in.good

\* Lines 336-340: the head of the page loop reads one whole page.
DiskReadPage ==
  /\ pc = "disk_page"
  /\ DiskLoopCond
  /\ IF loc.sec < Len(file.pages)
     THEN /\ pc' = "disk_slot"
          /\ loc' = [loc EXCEPT !.j = 0, !.pages_read = @ + 1]
          /\ in' = [in EXCEPT !.pos = @ + kSectorLen]
     ELSE /\ pc' = pc
          /\ loc' = loc
          /\ in' = [in EXCEPT !.good = FALSE]
  /\ UNCHANGED <<args, file, s, out>>

\* Lines 341-356: one slot of the page in the buffer, or the end of the
\* inner loop.  A degree field copied from outside the buffer is any value,
\* or a crash.
DiskSlot ==
  /\ pc = "disk_slot"
  /\ LET h == loc.h
         node_id == NodeId(h, loc.sec, loc.j)
         o == DegreeOffset(h, loc.esz, loc.j)
     IN  IF \/ ~Less(U64(loc.j), h.nnodes_per_sector)
            \/ ~Less(node_id, h.disk_nnodes)
            \/ DegreeOverruns(h, loc.esz, loc.j)
         THEN /\ pc' = "disk_page"
              /\ loc' = [loc EXCEPT !.sec = @ + 1]
         ELSE \/ /\ InsideSector(o, SizeofU32)
                 /\ pc' = pc
                 /\ loc' = [loc EXCEPT
                      !.acc = Accumulate(@, PageU32(file.pages[loc.sec + 1], ToNat(o)),
                                         kDefaultWeakThreshold),
                      !.fed = Append(@, [id |-> ToNat(node_id), sec |-> loc.sec, j |-> loc.j]),
                      !.j = @ + 1]
              \/ /\ ~InsideSector(o, SizeofU32)
                 /\ pc' = pc
                 /\ \E nnbrs \in DegreeSamples :
                      loc' = [loc EXCEPT
                        !.acc = Accumulate(@, nnbrs, kDefaultWeakThreshold),
                        !.fed = Append(@, [id |-> ToNat(node_id), sec |-> loc.sec, j |-> loc.j]),
                        !.j = @ + 1, !.wild = TRUE]
              \/ /\ ~InsideSector(o, SizeofU32)
                 /\ pc' = "crashed"
                 /\ loc' = [loc EXCEPT !.wild = TRUE]
  /\ UNCHANGED <<args, file, in, s, out>>

\* Lines 358-363.
DiskFinish ==
  /\ pc = "disk_page"
  /\ ~DiskLoopCond
  /\ s' = [s EXCEPT !.total_edges = loc.acc.total_edges,
                    !.degree_min = CollapseMin(loc.acc.degree_min),
                    !.degree_avg = IF Less(U64(0), loc.h.disk_nnodes)
                                   THEN AvgOf(loc.acc.total_edges, ToNat(loc.h.disk_nnodes))
                                   ELSE <<0, 1>>,
                    !.degree_max = loc.acc.degree_max,
                    !.weak_count = loc.acc.weak_count]
  /\ pc' = "done"
  /\ UNCHANGED <<args, file, in, loc, out>>

NextDisk == DiskBegin \/ DiskReadPage \/ DiskSlot \/ DiskFinish

SpecDisk == InitDisk /\ [][NextDisk]_vars

(***************************************************************************)
(* The small-graph renderers.  The text put on the stream is kept as the   *)
(* sequence `out` of its lines, a line being the values printed on it.     *)
(***************************************************************************)
\* Neighbor lists of the records the renderers are run on: an empty one,
\* one with a target no sample of the model holds, one with a target that is
\* inside the larger samples only.
SmallLists == {<<>>, <<1, 5>>, <<2, 0, 1>>}
SmallRecords == SeqUpTo(SmallLists, MaxSample)
NumNodesSamples == 0..MaxSample
MaxNeighborsSamples == {0, 2}

\* Layout-A files for the renderers: the writer's header and one whose
\* expected_total_size stops the scan after the first degree field's worth.
SmallGraphFiles ==
  {NoFile} \cup
  UNION {{GraphFile(0, recs, len, e, 7, 0) :
            len \in CutPoints(0, recs),
            e \in {ExactSize(recs), kGraphHeaderSize + SizeofU32}} :
         recs \in SmallRecords}

\* Layout-C files for the renderers.  One geometry leaves room for three
\* neighbor ids before the end of the page.
SmallGeometries ==
  {[ndims |-> 2, esz |-> 4, mnl |-> 2048, nps |-> 2],
   [ndims |-> 1020, esz |-> 4, mnl |-> 4096, nps |-> 1]}

SmallNodeRec(l) == [deg |-> IF Len(l) = 3 THEN 5 ELSE Len(l), nbrs |-> l]

SmallHeaderFields(g, n) ==
  LET f == TrueFields(g, n)
  IN  {f,
       [f EXCEPT !.nnodes_per_sector = U64(0)],
       [f EXCEPT !.nnodes_per_sector = U64(g.nps + 1)],
       [f EXCEPT !.n_dims = MinusFour],
       [f EXCEPT !.n_nodes = U64(n + 1)]}

SmallDiskFilesOf(g, nodes) ==
  {DiskFile(g, nodes, TaggedHeader(f), np) :
     f \in SmallHeaderFields(g, Len(nodes)), np \in 0..PagesNeeded(Len(nodes), g.nps)}
  \cup {DiskFile(g, nodes, Trunc(TaggedHeader(TrueFields(g, Len(nodes))), 44), 0)}

\* The nodes of a layout-C file have neighbors; a degree of 0 is what a slot
\* without a node, or a reader with another element size, gives.
SmallNodes == SeqUpTo({SmallNodeRec(l) : l \in SmallLists \ {<<>>}}, MaxSample)

SmallDiskFiles ==
  {NoFile} \cup
  UNION {UNION {SmallDiskFilesOf(g, nodes) : nodes \in SmallNodes} : g \in SmallGeometries}

\* The test of lines 240 and 520: the target v has a list in in_nbrs.
TrackedBelowLast(v, num_nodes) == v + 1 < num_nodes
Tracked(v, num_nodes) == v < num_nodes

\* Lines 239-243 and 519-523: every tracked target of nbrs, in order, gets
\* the row appended to its list.
RECURSIVE ReverseTrack(_, _, _, _)
ReverseTrack(in_nbrs, nbrs, num_nodes, row) ==
  IF nbrs = <<>> THEN in_nbrs
  ELSE ReverseTrack(IF Tracked(Head(nbrs), num_nodes)
                    THEN [in_nbrs EXCEPT ![Head(nbrs) + 1] = Append(@, row)]
                    ELSE in_nbrs,
                    Tail(nbrs), num_nodes, row)

\* std::vector::resize to a size n that is not above the current one.
Resize(q, n) == SubSeq(q, 1, n)

\* to_show (lines 255-257, 536-538).
ToShow(max_neighbors_per_node, size) ==
  IF max_neighbors_per_node > 0 /\ size > max_neighbors_per_node
  THEN max_neighbors_per_node ELSE size

\* The heading (lines 253, 533-534) and a node row (lines 258-271, 539-552):
\* the neighbors shown, the "... (K total)" mark when some are not, the
\* referenced_by list.
HeadingLine(num_nodes, ep) ==
  [kind |-> "heading", num_nodes |-> num_nodes, entry_point |-> ep]
RowLine(i, nbrs, refs, max_neighbors_per_node) ==
  LET to_show == ToShow(max_neighbors_per_node, Len(nbrs))
  IN  [kind |-> "row", id |-> i, shown |-> SubSeq(nbrs, 1, to_show),
       total |-> IF Len(nbrs) > to_show THEN <<Len(nbrs)>> ELSE <<>>,
       referenced_by |-> refs]
CouldNotOpenLine == [kind |-> "could_not_open"]

InitSmall ==
  /\ pc = "start"
  /\ \/ /\ file \in SmallGraphFiles
        /\ args \in [fn : {"print_small_graph_from_file"}, offset : {0},
                     num_nodes : NumNodesSamples,
                     max_neighbors_per_node : MaxNeighborsSamples]
     \/ /\ file \in SmallDiskFiles
        /\ args \in [fn : {"print_small_graph_from_disk_index"},
                     data_type : {"kFloat", "kUint8"},
                     num_nodes : NumNodesSamples,
                     max_neighbors_per_node : MaxNeighborsSamples]
  /\ in = NoStream
  /\ s = ZeroStats
  /\ loc = NoLocals
  /\ out = <<>>

\* print_small_graph_from_file, lines 198-224.
SmallFileBegin ==
  /\ pc = "start"
  /\ args.fn = "print_small_graph_from_file"
  /\ IF ~file.exists
     THEN /\ pc' = "done" /\ out' = <<CouldNotOpenLine>> /\ in' = in /\ loc' = loc
     ELSE IF ~CanRead(file, args.offset, kGraphHeaderSize)
     THEN /\ pc' = "done" /\ out' = out /\ loc' = loc
          /\ in' = [open |-> TRUE, good |-> FALSE, pos |-> args.offset]
     ELSE /\ pc' = "small_file_scan"
          /\ out' = out
          /\ in' = [open |-> TRUE, good |-> TRUE, pos |-> args.offset + kGraphHeaderSize]
          /\ loc' = [fn |-> "small_file",
                     expected_file_size |-> file.hdr.expected_file_size,
                     ep |-> file.hdr.ep,
                     num_nodes |-> args.num_nodes,
                     out_nbrs |-> [i \in 1..args.num_nodes |-> <<>>],
                     in_nbrs |-> [i \in 1..args.num_nodes |-> <<>>],
                     bytes_read |-> kGraphHeaderSize,
                     node_id |-> 0, i |-> 0]
  /\ UNCHANGED <<args, file, s>>

SmallFileLoopCond ==
  /\ loc.bytes_read # loc.expected_file_size
  /\ loc.node_id < loc.num_nodes
  /\ in.good

\* Lines 225-246: one iteration.  The neighbor ids are read whole or the
\* loop is left.
SmallFileScan ==
  /\ pc = "small_file_scan"
  /\ SmallFileLoopCond
  /\ IF ~CanRead(file, in.pos, SizeofU32)
     THEN /\ in' = [in EXCEPT !.good = FALSE]
          /\ loc' = loc
     ELSE LET k == WordAt(file, in.pos)
              first == (in.pos - file.pre - kGraphHeaderSize) \div SizeofU32 + 1
          IN  IF k > 0 /\ ~CanRead(file, in.pos + SizeofU32, k * SizeofU32)
              THEN /\ in' = [in EXCEPT !.good = FALSE, !.pos = @ + SizeofU32]
                   /\ loc' = loc
              ELSE LET nbrs == SubSeq(file.words, first + 1, first + k)
                   IN  /\ in' = [in EXCEPT !.pos = @ + SizeofU32 + k * SizeofU32]
                       /\ loc' = [loc EXCEPT
                            !.out_nbrs[loc.node_id + 1] = nbrs,
                            !.in_nbrs = ReverseTrack(@, nbrs, loc.num_nodes, loc.node_id),
                            !.bytes_read = NextBytesRead(@, Len(nbrs)),
                            !.node_id = @ + 1]
  /\ UNCHANGED <<pc, args, file, s, out>>

\* Lines 247-253: the loop is over; the two structures are cut to the nodes
\* read and the heading is printed.
SmallFileHeading ==
  /\ pc = "small_file_scan"
  /\ ~SmallFileLoopCond
  /\ LET n == IF loc.node_id < loc.num_nodes THEN loc.node_id ELSE loc.num_nodes
     IN  /\ loc' = [loc EXCEPT !.out_nbrs = Resize(@, n), !.in_nbrs = Resize(@, n),
                               !.num_nodes = n, !.i = 0]
         /\ out' = Append(out, HeadingLine(n, loc.ep))
  /\ pc' = "small_print"
  /\ UNCHANGED <<args, file, in, s>>

\* Lines 254-272 and 535-553: one node row, or the end of the loop.
SmallPrintRow ==
  /\ pc = "small_print"
  /\ IF loc.i < loc.num_nodes
     THEN /\ out' = Append(out, RowLine(loc.i, loc.out_nbrs[loc.i + 1],
                                        loc.in_nbrs[loc.i + 1],
                                        args.max_neighbors_per_node))
          /\ loc' = [loc EXCEPT !.i = @ + 1]
          /\ pc' = pc
     ELSE /\ pc' = "done"
          /\ UNCHANGED <<out, loc>>
  /\ UNCHANGED <<args, file, in, s>>

\* nbr_cap (lines 509-512) for the degree field nnbrs of slot j.
NbrBase(h, esz, j) ==
  Add64(Add64(OffsetInSector(h, j), CoordBytes(h, esz)), U64(SizeofU32))
NbrCap(h, esz, j, nnbrs) ==
  IF Less(U64(kSectorLen), Add64(NbrBase(h, esz, j), Mul64(U64(nnbrs), U64(SizeofU32))))
  THEN ToNat(Div64(Sub64(U64(kSectorLen), NbrBase(h, esz, j)), U64(SizeofU32)))
  ELSE nnbrs

\* print_small_graph_from_disk_index, lines 447-492.
SmallDiskBegin ==
  /\ pc = "start"
  /\ args.fn = "print_small_graph_from_disk_index"
  /\ IF ~file.exists
     THEN /\ pc' = "done" /\ out' = <<CouldNotOpenLine>> /\ in' = in /\ loc' = loc
     ELSE LET h == ResolveHeader(file)
              esz == elem_size(args.data_type)
              n == IF Less(h.disk_nnodes, U64(args.num_nodes))
                   THEN ToNat(h.disk_nnodes) ELSE args.num_nodes
          IN  /\ out' = out
              /\ IF ~h.good \/ h.nnodes_per_sector = U64(0) \/ GeometryRejects(h, esz)
                 THEN /\ pc' = "done" /\ loc' = loc
                      /\ in' = [open |-> TRUE, good |-> h.good, pos |-> 0]
                 ELSE /\ pc' = "small_disk_page"
                      /\ in' = [open |-> TRUE, good |-> TRUE, pos |-> kDiskIndexDataOffset]
                      /\ loc' = [fn |-> "small_disk", h |-> h, esz |-> esz,
                                 ep |-> h.medoid_id_on_file,
                                 num_nodes |-> n,
                                 out_nbrs |-> [i \in 1..n |-> <<>>],
                                 in_nbrs |-> [i \in 1..n |-> <<>>],
                                 n_sectors |-> NumSectors(h), sec |-> 0, j |-> 0,
                                 nodes_read |-> 0, i |-> 0, rows |-> <<>>,
                                 wild |-> FALSE]
  /\ UNCHANGED <<args, file, s>>

SmallDiskLoopCond ==
  /\ Less(U64(loc.sec), loc.n_sectors)
  /\ loc.nodes_read < loc.num_nodes
  /\ in.good

\* Lines 493-497: the head of the page loop reads one whole page.
SmallDiskReadPage ==
  /\ pc = "small_disk_page"
  /\ SmallDiskLoopCond
  /\ IF loc.sec < Len(file.pages)
     THEN /\ pc' = "small_disk_slot"
          /\ loc' = [loc EXCEPT !.j = 0]
          /\ in' = [in EXCEPT !.pos = @ + kSectorLen]
     ELSE /\ pc' = pc
          /\ loc' = loc
          /\ in' = [in EXCEPT !.good = FALSE]
  /\ UNCHANGED <<args, file, s, out>>

\* The row a slot gives for the degree field nnbrs: the neighbor ids copied
\* from the page, the reverse lists, the next row.
SmallDiskRow(nnbrs, wild) ==
  LET h == loc.h
      cap == NbrCap(h, loc.esz, loc.j, nnbrs)
      base == ToNat(NbrBase(h, loc.esz, loc.j))
      page == file.pages[loc.sec + 1]
      nbrs == [w \in 1..cap |-> PageU32(page, base + SizeofU32 * (w - 1))]
  IN  [loc EXCEPT
         !.out_nbrs[loc.nodes_read + 1] = nbrs,
         !.in_nbrs = ReverseTrack(@, nbrs, loc.num_nodes, loc.nodes_read),
         !.rows = Append(@, [id |-> ToNat(NodeId(h, loc.sec, loc.j)),
                             sec |-> loc.sec, j |-> loc.j]),
         !.nodes_read = @ + 1,
         !.j = @ + 1,
         !.wild = wild]

\* Lines 498-525: one slot of the page in the buffer, or the end of the
\* inner loop.  A degree field copied from outside the buffer is any value,
\* or a crash.
SmallDiskSlot ==
  /\ pc = "small_disk_slot"
  /\ LET h == loc.h
         o == DegreeOffset(h, loc.esz, loc.j)
     IN  IF \/ ~Less(U64(loc.j), h.nnodes_per_sector)
            \/ ~(loc.nodes_read < loc.num_nodes)
            \/ ~Less(NodeId(h, loc.sec, loc.j), h.disk_nnodes)
            \/ DegreeOverruns(h, loc.esz, loc.j)
         THEN /\ pc' = "small_disk_page"
              /\ loc' = [loc EXCEPT !.sec = @ + 1]
         ELSE \/ /\ InsideSector(o, SizeofU32)
                 /\ pc' = pc
                 /\ loc' = SmallDiskRow(PageU32(file.pages[loc.sec + 1], ToNat(o)), loc.wild)
              \/ /\ ~InsideSector(o, SizeofU32)
                 /\ pc' = pc
                 /\ \E nnbrs \in {0, 2} : loc' = SmallDiskRow(nnbrs, TRUE)
              \/ /\ ~InsideSector(o, SizeofU32)
                 /\ pc' = "crashed"
                 /\ loc' = [loc EXCEPT !.wild = TRUE]
  /\ UNCHANGED <<args, file, in, s, out>>

\* Lines 527-534: the loop is over; the two structures are cut to the nodes
\* read and the heading is printed.
SmallDiskHeading ==
  /\ pc = "small_disk_page"
  /\ ~SmallDiskLoopCond
  /\ LET n == IF loc.nodes_read < loc.num_nodes THEN loc.nodes_read ELSE loc.num_nodes
     IN  /\ loc' = [loc EXCEPT !.out_nbrs = Resize(@, n), !.in_nbrs = Resize(@, n),
                               !.num_nodes = n, !.i = 0]
         /\ out' = Append(out, HeadingLine(n, loc.ep))
  /\ pc' = "small_print"
  /\ UNCHANGED <<args, file, in, s>>

NextSmall ==
  \/ SmallFileBegin \/ SmallFileScan \/ SmallFileHeading
  \/ SmallDiskBegin \/ SmallDiskReadPage \/ SmallDiskSlot \/ SmallDiskHeading
  \/ SmallPrintRow

SpecSmall == InitSmall /\ [][NextSmall]_vars

(***************************************************************************)
(* The adjacency-sample printers.  Their lines go to `out` as the small-   *)
(* graph renderers' do; loc.rows remembers, per line, the slot it came     *)
(* from and the degree field read there.                                   *)
(***************************************************************************)
\* The heading (lines 160, 404) and a node line (lines 181-189, 427-439).
AdjHeadingLine(num_nodes, ep) ==
  [kind |-> "adj_heading", num_nodes |-> num_nodes, entry_point |-> ep]
AdjLine(node_id, nbrs, k) ==
  [kind |-> "line", id |-> node_id, shown |-> nbrs,
   total |-> IF k > Len(nbrs) THEN <<k>> ELSE <<>>]

InitAdj ==
  /\ pc = "start"
  /\ \/ /\ file \in SmallGraphFiles
        /\ args \in [fn : {"print_adjacency_sample_from_file"}, offset : {0},
                     num_nodes : NumNodesSamples,
                     max_neighbors_per_node : MaxNeighborsSamples]
     \/ /\ file \in SmallDiskFiles
        /\ args \in [fn : {"print_adjacency_sample_from_disk_index"},
                     data_type : {"kFloat", "kUint8"},
                     num_nodes : NumNodesSamples,
                     max_neighbors_per_node : MaxNeighborsSamples]
  /\ in = NoStream
  /\ s = ZeroStats
  /\ loc = NoLocals
  /\ out = <<>>

\* print_adjacency_sample_from_file, lines 137-162.
AdjFileBegin ==
  /\ pc = "start"
  /\ args.fn = "print_adjacency_sample_from_file"
  /\ IF ~file.exists
     THEN /\ pc' = "done" /\ out' = <<CouldNotOpenLine>> /\ in' = in /\ loc' = loc
     ELSE IF ~CanRead(file, args.offset, kGraphHeaderSize)
     THEN /\ pc' = "done" /\ out' = out /\ loc' = loc
          /\ in' = [open |-> TRUE, good |-> FALSE, pos |-> args.offset]
     ELSE /\ pc' = "adj_file_scan"
          /\ out' = <<AdjHeadingLine(args.num_nodes, file.hdr.ep)>>
          /\ in' = [open |-> TRUE, good |-> TRUE, pos |-> args.offset + kGraphHeaderSize]
          /\ loc' = [fn |-> "adj_file",
                     expected_file_size |-> file.hdr.expected_file_size,
                     bytes_read |-> kGraphHeaderSize,
                     node_id |-> 0, rows |-> <<>>]
  /\ UNCHANGED <<args, file, s>>

AdjFileLoopCond ==
  /\ loc.bytes_read # loc.expected_file_size
  /\ loc.node_id < args.num_nodes
  /\ in.good

\* Lines 163-193: one iteration.  The neighbor ids to show are read; the
\* others are skipped by a seek, which succeeds past the end of the file.
AdjFileScan ==
  /\ pc = "adj_file_scan"
  /\ AdjFileLoopCond
  /\ IF ~CanRead(file, in.pos, SizeofU32)
     THEN /\ in' = [in EXCEPT !.good = FALSE]
          /\ UNCHANGED <<loc, out>>
     ELSE LET k == WordAt(file, in.pos)
              first == (in.pos - file.pre - kGraphHeaderSize) \div SizeofU32 + 1
              to_show == ToShow(args.max_neighbors_per_node, k)
          IN  IF to_show > 0 /\ ~CanRead(file, in.pos + SizeofU32, to_show * SizeofU32)
              THEN /\ in' = [in EXCEPT !.good = FALSE, !.pos = @ + SizeofU32]
                   /\ UNCHANGED <<loc, out>>
              ELSE /\ in' = [in EXCEPT !.pos = @ + SizeofU32 + k * SizeofU32]
                   /\ out' = Append(out, AdjLine(loc.node_id,
                                                 SubSeq(file.words, first + 1, first + to_show), k))
                   /\ loc' = [loc EXCEPT
                        !.rows = Append(@, [id |-> loc.node_id, nnbrs |-> k]),
                        !.bytes_read = NextBytesRead(@, k),
                        !.node_id = @ + 1]
  /\ UNCHANGED <<pc, args, file, s>>

\* Line 194: the loop is over.
AdjFileDone ==
  /\ pc = "adj_file_scan"
  /\ ~AdjFileLoopCond
  /\ pc' = "done"
  /\ UNCHANGED <<args, file, in, s, loc, out>>

\* print_adjacency_sample_from_disk_index, lines 368-408.
AdjDiskBegin ==
  /\ pc = "start"
  /\ args.fn = "print_adjacency_sample_from_disk_index"
  /\ IF ~file.exists
     THEN /\ pc' = "done" /\ out' = <<CouldNotOpenLine>> /\ in' = in /\ loc' = loc
     ELSE LET h == ResolveHeader(file)
              esz == elem_size(args.data_type)
          IN  IF ~h.good \/ h.nnodes_per_sector = U64(0) \/ GeometryRejects(h, esz)
              THEN /\ pc' = "done" /\ loc' = loc /\ out' = out
                   /\ in' = [open |-> TRUE, good |-> h.good, pos |-> 0]
              ELSE /\ pc' = "adj_disk_page"
                   /\ out' = <<AdjHeadingLine(args.num_nodes, h.medoid_id_on_file)>>
                   /\ in' = [open |-> TRUE, good |-> TRUE, pos |-> kDiskIndexDataOffset]
                   /\ loc' = [fn |-> "adj_disk", h |-> h, esz |-> esz,
                              n_sectors |-> NumSectors(h), sec |-> 0, j |-> 0,
                              nodes_printed |-> 0, rows |-> <<>>, wild |-> FALSE]
  /\ UNCHANGED <<args, file, s>>

AdjDiskLoopCond ==
  /\ Less(U64(loc.sec), loc.n_sectors)
  /\ loc.nodes_printed < args.num_nodes
  /\ in.good

\* Lines 409-413: the head of the page loop reads one whole page.
AdjDiskReadPage ==
  /\ pc = "adj_disk_page"
  /\ AdjDiskLoopCond
  /\ IF loc.sec < Len(file.pages)
     THEN /\ pc' = "adj_disk_slot"
          /\ loc' = [loc EXCEPT !.j = 0]
          /\ in' = [in EXCEPT !.pos = @ + kSectorLen]
     ELSE /\ pc' = pc
          /\ loc' = loc
          /\ in' = [in EXCEPT !.good = FALSE]
  /\ UNCHANGED <<args, file, s, out>>

\* The test of line 428: to_show neighbor ids lie before the end of the page.
NbrsFit(h, esz, j, to_show) ==
  LessEq(Add64(NbrBase(h, esz, j), Mul64(U64(to_show), U64(SizeofU32))), U64(kSectorLen))

\* Lines 425-439: the line printed for the degree field nnbrs of slot j.
AdjDiskLine(nnbrs) ==
  LET h == loc.h
      to_show == ToShow(args.max_neighbors_per_node, nnbrs)
      base == ToNat(NbrBase(h, loc.esz, loc.j))
      page == file.pages[loc.sec + 1]
      nbrs == IF to_show > 0 /\ NbrsFit(h, loc.esz, loc.j, to_show)
              THEN [w \in 1..to_show |-> PageU32(page, base + SizeofU32 * (w - 1))]
              ELSE <<>>
  IN  [kind |-> "line", id |-> ToNat(NodeId(h, loc.sec, loc.j)), shown |-> nbrs,
       total |-> IF nnbrs > to_show THEN <<nnbrs>> ELSE <<>>]

\* Lines 414-441: one slot of the page in the buffer, or the end of the
\* inner loop.  A degree field copied from outside the buffer is any value,
\* or a crash.
AdjDiskSlot ==
  /\ pc = "adj_disk_slot"
  /\ LET h == loc.h
         o == DegreeOffset(h, loc.esz, loc.j)
         row(nnbrs) == [id |-> ToNat(NodeId(h, loc.sec, loc.j)), sec |-> loc.sec,
                        j |-> loc.j, nnbrs |-> nnbrs]
     IN  IF \/ ~Less(U64(loc.j), h.nnodes_per_sector)
            \/ ~(loc.nodes_printed < args.num_nodes)
            \/ ~Less(NodeId(h, loc.sec, loc.j), h.disk_nnodes)
            \/ DegreeOverruns(h, loc.esz, loc.j)
         THEN /\ pc' = "adj_disk_page"
              /\ loc' = [loc EXCEPT !.sec = @ + 1]
              /\ out' = out
         ELSE \/ /\ InsideSector(o, SizeofU32)
                 /\ pc' = pc
                 /\ LET nnbrs == PageU32(file.pages[loc.sec + 1], ToNat(o))
                    IN  /\ out' = Append(out, AdjDiskLine(nnbrs))
                        /\ loc' = [loc EXCEPT !.rows = Append(@, row(nnbrs)),
                                              !.nodes_printed = @ + 1, !.j = @ + 1]
              \/ /\ ~InsideSector(o, SizeofU32)
                 /\ pc' = pc
                 /\ \E nnbrs \in {0, 2} :
                      /\ out' = Append(out, AdjDiskLine(nnbrs))
                      /\ loc' = [loc EXCEPT !.rows = Append(@, row(nnbrs)),
                                            !.nodes_printed = @ + 1, !.j = @ + 1,
                                            !.wild = TRUE]
              \/ /\ ~InsideSector(o, SizeofU32)
                 /\ pc' = "crashed"
                 /\ loc' = [loc EXCEPT !.wild = TRUE]
                 /\ out' = out
  /\ UNCHANGED <<args, file, in, s>>

\* Line 443: the loop is over.
AdjDiskDone ==
  /\ pc = "adj_disk_page"
  /\ ~AdjDiskLoopCond
  /\ pc' = "done"
  /\ UNCHANGED <<args, file, in, s, loc, out>>

NextAdj ==
  \/ AdjFileBegin \/ AdjFileScan \/ AdjFileDone
  \/ AdjDiskBegin \/ AdjDiskReadPage \/ AdjDiskSlot \/ AdjDiskDone

SpecAdj == InitAdj /\ [][NextAdj]_vars

(***************************************************************************)
(* All six file readers on files that differ in their first bytes: whole   *)
(* and cut headers of layout A, and for layout C the tag values around the *)
(* threshold, a negative tag, an untagged header that reads as tagged, and *)
(* headers cut inside the tag or inside the fields.                        *)
(***************************************************************************)
HeaderRecords == {<<<<1, 5>>, <<2, 0, 1>>>>, <<<<2, 0, 1>>, <<>>, <<1, 5>>>>}

HeaderGraphFiles ==
  UNION {UNION {{GraphFile(pre, recs, len, ExactSize(recs), 7, 5) :
                   len \in {0, pre + 10, pre + kGraphHeaderSize - 1, pre + kGraphHeaderSize,
                            pre + ExactSize(recs)}} :
                recs \in HeaderRecords} :
         pre \in {0, kMetadataSize}}

\* The first 48 bytes of a file whose first four bytes are `tag`.
TagBytes(tag, f) == tag \o ToLimbs(1, SizeofU32) \o FieldBytes(f)

HeaderDiskFilesOf(g, nodes) ==
  LET f == TrueFields(g, Len(nodes))
      all == PagesNeeded(Len(nodes), g.nps)
  IN  {DiskFile(g, nodes, TaggedHeader(f), all),
       DiskFile(g, nodes, UntaggedHeader(f), all),
       DiskFile(g, nodes, TagBytes(<<5, 0, 0, 0>>, f), all),
       DiskFile(g, nodes, TagBytes(<<4, 0, 0, 0>>, f), 0),
       DiskFile(g, nodes, TagBytes(<<0, 0, 0, 128>>, [f EXCEPT !.medoid = U64(0)]), 0),
       DiskFile(g, nodes, UntaggedHeader([f EXCEPT !.n_nodes = U64(5)]), all)}
      \cup {DiskFile(g, nodes, SubSeq(TaggedHeader(f), 1, cut), 0) :
              cut \in {0, 3, 4, 7, 8, 40, 44, 47}}
      \cup {DiskFile(g, nodes, SubSeq(UntaggedHeader(f), 1, cut), 0) : cut \in {8, 24, 39}}

HeaderDiskFiles ==
  UNION {HeaderDiskFilesOf([ndims |-> 2, esz |-> 4, mnl |-> 2048, nps |-> 2],
                           [i \in 1..Len(recs) |-> SmallNodeRec(recs[i])]) :
           recs \in HeaderRecords}

InitHeader ==
  /\ pc = "start"
  /\ \/ /\ file \in HeaderGraphFiles
        /\ \/ args = [fn |-> "compute_graph_stats_from_file", offset |-> file.pre]
           \/ args \in [fn : {"print_adjacency_sample_from_file",
                              "print_small_graph_from_file"},
                        offset : {file.pre}, num_nodes : {2},
                        max_neighbors_per_node : MaxNeighborsSamples]
     \/ /\ file \in HeaderDiskFiles
        /\ \/ args \in [fn : {"compute_graph_stats_from_disk_index"},
                        data_type : {"kFloat", "kUint8"}]
           \/ args \in [fn : {"print_adjacency_sample_from_disk_index",
                              "print_small_graph_from_disk_index"},
                        data_type : {"kFloat", "kUint8"}, num_nodes : {2},
                        max_neighbors_per_node : MaxNeighborsSamples]
  /\ in = NoStream
  /\ s = ZeroStats
  /\ loc = NoLocals
  /\ out = <<>>

NextHeader == NextFile \/ NextDisk \/ NextSmall \/ NextAdj

SpecHeader == InitHeader /\ [][NextHeader]_vars

(***************************************************************************)
(* The two statistics scans on whole inputs: every in-memory call of the   *)
(* model, and compute_graph_stats_from_file on the files a writer left     *)
(* uncut.                                                                  *)
(***************************************************************************)
WholeGraphFiles ==
  UNION {{GraphFile(pre, recs, pre + ExactSize(recs), ExactSize(recs), ep, fr) :
            pre \in {0, kMetadataSize}, ep \in EntryPointSamples, fr \in FrozenSamples} :
         recs \in StatsRecords}

InitStats ==
  /\ pc = "start"
  /\ \/ /\ args \in MemArgs
        /\ file = NoFile
     \/ /\ file \in WholeGraphFiles
        /\ args = [fn |-> "compute_graph_stats_from_file", offset |-> file.pre]
  /\ in = NoStream
  /\ s = ZeroStats
  /\ loc = NoLocals
  /\ out = <<>>

NextStats == NextMem \/ NextFile

SpecStats == InitStats /\ [][NextStats]_vars

\* The scan loop (lines 43-52, 96-115) as a function of the degrees it meets,
\* in the order it meets them, and the fields computed from its sums (lines
\* 54-59, 117-124).
RECURSIVE FoldDegrees(_, _, _)
FoldDegrees(acc, ds, weak_threshold) ==
  IF ds = <<>> THEN acc
  ELSE FoldDegrees(Accumulate(acc, Head(ds), weak_threshold), Tail(ds), weak_threshold)

ScanResult(ds, weak_threshold) ==
  LET acc == FoldDegrees(InitAcc, ds, weak_threshold)
  IN  [total_nodes |-> Len(ds),
       total_edges |-> acc.total_edges,
       degree_min |-> CollapseMin(acc.degree_min),
       degree_avg |-> IF Len(ds) > 0 THEN AvgOf(acc.total_edges, Len(ds)) ELSE <<0, 1>>,
       degree_max |-> acc.degree_max,
       weak_count |-> acc.weak_count]

(***************************************************************************)
(* compute_graph_stats_from_file as a process that keeps taking steps: the *)
(* call runs on without interruption until it returns.                     *)
(***************************************************************************)
LiveGraphFiles ==
  UNION {{GraphFile(0, recs, len, e, 0, 0) :
            len \in CutPoints(0, recs), e \in ExpectedSamples(recs)} :
         recs \in StatsRecords}

InitFileLive ==
  /\ pc = "start"
  /\ file \in LiveGraphFiles
  /\ args = [fn |-> "compute_graph_stats_from_file", offset |-> 0]
  /\ in = NoStream
  /\ s = ZeroStats
  /\ loc = NoLocals
  /\ out = <<>>

SpecFileLive == InitFileLive /\ [][NextFile]_vars /\ WF_vars(NextFile)

(***************************************************************************)
(* What the claims speak of.                                               *)
(***************************************************************************)
FirstK(q, k) == SubSeq(q, 1, k)

\* s holds the statistics of exactly the degrees ds, under threshold thr.
StatsAgree(st, ds, thr) ==
  /\ st.total_nodes = Len(ds)
  /\ st.total_edges = SumSeq(ds)
  /\ st.degree_min = (IF ds = <<>> THEN 0 ELSE MinSeq(ds))
  /\ st.degree_max = (IF ds = <<>> THEN 0 ELSE MaxSeq(ds))
  /\ st.degree_avg = (IF ds = <<>> THEN <<0, 1>> ELSE <<SumSeq(ds), Len(ds)>>)
  /\ st.weak_count = WeakIn(ds, thr)

\* degree_min <= degree_avg <= degree_max, the average being a fraction.
AvgBetween(st) ==
  /\ st.degree_min * st.degree_avg[2] <= st.degree_avg[1]
  /\ st.degree_avg[1] <= st.degree_max * st.degree_avg[2]

\* A layout-A file as its writer left it.
WellFormedA(f) ==
  /\ f.exists
  /\ f.len = FullLen(f)
  /\ f.hdr.expected_file_size = ExactSize(f.recs)

\* A well-formed file cut exactly after its k-th record, header unchanged.
CutAfterRecord(f, k) ==
  /\ f.exists
  /\ f.hdr.expected_file_size = ExactSize(f.recs)
  /\ k < Len(f.recs)
  /\ f.len = f.pre + kGraphHeaderSize + RecordBytes(FirstK(f.recs, k))

\* The file ends inside record k + 1: its degree field is there, its neighbor
\* ids are not all there.
EndsInsideRecord(f, k) ==
  /\ f.exists
  /\ k < Len(f.recs)
  /\ LET start == f.pre + kGraphHeaderSize + RecordBytes(FirstK(f.recs, k))
     IN  /\ f.len >= start + SizeofU32
         /\ f.len < start + SizeofU32 + SizeofU32 * Len(f.recs[k + 1])

\* The values of a list.
Range(q) == {q[i] : i \in 1..Len(q)}

\* A small-graph renderer got past the header.
SmallCall == loc.fn \in {"small_file", "small_disk"}

\* The nodes read so far.
NodesRead == IF loc.fn = "small_file" THEN loc.node_id ELSE loc.nodes_read

\* The scan loop has been left: the nodes read are all that will be read.
ScanOver ==
  \/ pc \in {"small_print", "done"}
  \/ pc = "small_file_scan" /\ ~SmallFileLoopCond
  \/ pc = "small_disk_page" /\ ~SmallDiskLoopCond

\* The finished output for M nodes read: the heading reports M, there is one
\* row per node read, and row i is referenced by u exactly when u is a row
\* whose out-neighbors hold i.
SmallOutputRight(M) ==
  /\ Len(out) = M + 1
  /\ out[1] = HeadingLine(M, loc.ep)
  /\ Len(loc.out_nbrs) = M
  /\ Len(loc.in_nbrs) = M
  /\ \A i \in 0..M - 1 :
       /\ out[i + 2].kind = "row"
       /\ out[i + 2].id = i
       /\ out[i + 2].referenced_by = loc.in_nbrs[i + 1]
       /\ Range(out[i + 2].referenced_by) \subseteq 0..M - 1
       /\ \A u \in 0..M - 1 :
            u \in Range(out[i + 2].referenced_by) <=> i \in Range(loc.out_nbrs[u + 1])
  /\ loc.fn = "small_file" => loc.out_nbrs = FirstK(file.recs, M)

\* The invariant of layout C in arithmetic that does not wrap:
\* max_record_len >= n_dims * element_size + 4 and max_record_len <= 4096.
TrueGeometryOK(h, esz) ==
  /\ LessEq(AddWide(MulWide(h.disk_ndims, U64(esz)), Pad(U64(SizeofU32), 2 * NumLimbs)),
            Pad(h.max_node_len, 2 * NumLimbs + 1))
  /\ LessEq(h.max_node_len, U64(kSectorLen))

\* The call read a whole header.
HeaderRead == loc.fn = "disk" /\ loc.h.good

\* The slots the page loop is to visit for n nodes, nps to a page.
ExpectedFed(n, nps) ==
  [i \in 1..n |-> [id |-> i - 1, sec |-> (i - 1) \div nps, j |-> (i - 1) % nps]]

\* A layout-C file with records_per_page >= 1, whose records_per_page
\* records fit in a page, and whose pages are all there.
PagedFileComplete ==
  /\ HeaderRead
  /\ TrueGeometryOK(loc.h, loc.esz)
  /\ IsSmall(loc.h.disk_nnodes)
  /\ IsSmall(loc.h.nnodes_per_sector)
  /\ ToNat(loc.h.nnodes_per_sector) >= 1
  /\ ToNat(loc.h.nnodes_per_sector) * ToNat(loc.h.max_node_len) <= kSectorLen
  /\ Len(file.pages) >= PagesNeeded(ToNat(loc.h.disk_nnodes), ToNat(loc.h.nnodes_per_sector))

\* The header and the caller's data type are those the pages were written with.
ReadAsWritten ==
  /\ HeaderRead
  /\ loc.esz = file.g.esz
  /\ loc.h.disk_nnodes = U64(Len(file.nodes))
  /\ loc.h.disk_ndims = U64(file.g.ndims)
  /\ loc.h.max_node_len = U64(file.g.mnl)
  /\ loc.h.nnodes_per_sector = U64(file.g.nps)

StoredDegrees(nodes) == [i \in 1..Len(nodes) |-> nodes[i].deg]

\* An adjacency-sample printer got past the header.
AdjCall == loc.fn \in {"adj_file", "adj_disk"}

\* The first four bytes of b as a signed 32-bit integer.
SignedI32(b) ==
  b[1] + LimbBase * b[2] + LimbBase^2 * b[3]
  + LimbBase^3 * (IF b[4] >= 128 THEN b[4] - LimbBase ELSE b[4])

\* The first bytes b of a layout-C file make the reader commit to the tagged
\* variant: both tag words are there and the first is at least 5.
CommitsTagged(b) == Len(b) >= 2 * SizeofU32 /\ SignedI32(b) >= 5

\* A disk-index reader has resolved a header and holds it.
HoldsHeader == loc.fn \in {"disk", "small_disk", "adj_disk"}

\* The call reads layout A (the raw graph); the others read layout C.
ReadsLayoutA ==
  args.fn \in {"compute_graph_stats_from_file", "print_adjacency_sample_from_file",
               "print_small_graph_from_file"}

\* The file ends before the header the call parses is complete.
HeaderShort ==
  /\ file.exists
  /\ IF ReadsLayoutA
     THEN file.len < args.offset + kGraphHeaderSize
     ELSE Len(file.hdr) < (IF CommitsTagged(file.hdr) THEN 2 * SizeofU32 ELSE 0)
                          + 5 * SizeofU64

\* The whole neighbor ids that fit between the neighbor area of slot j and
\* the end of the page.
FitBeforePageEnd(h, esz, j) == (kSectorLen - ToNat(NbrBase(h, esz, j))) \div SizeofU32

\* A layout-C file with a valid header whose body stops early: pages are
\* missing, or the slots the header states do not all fit in a page.
BodyStopsEarly ==
  /\ HeaderRead
  /\ TrueGeometryOK(loc.h, loc.esz)
  /\ IsSmall(loc.h.disk_nnodes)
  /\ IsSmall(loc.h.nnodes_per_sector)
  /\ ToNat(loc.h.nnodes_per_sector) >= 1
  /\ \/ Len(file.pages) < PagesNeeded(ToNat(loc.h.disk_nnodes), ToNat(loc.h.nnodes_per_sector))
     \/ ToNat(loc.h.nnodes_per_sector) * ToNat(loc.h.max_node_len) > kSectorLen

\* The orders of n things, and the sequence q in the order p.
Perms(n) == {p \in [1..n -> 1..n] : \A i, j \in 1..n : i # j => p[i] # p[j]}
Permuted(q, p) == [i \in 1..Len(q) |-> q[p[i]]]

\* The fields of st that come from the degrees.
DegreeFields(st) ==
  [total_nodes |-> st.total_nodes, total_edges |-> st.total_edges,
   degree_min |-> st.degree_min, degree_avg |-> st.degree_avg,
   degree_max |-> st.degree_max, weak_count |-> st.weak_count]

(***************************************************************************)
(* Claims.                                                                 *)
(***************************************************************************)
\* C1: with total_nodes = nd + num_frozen_pts > 0 and that many lists in the
\* graph, compute_graph_stats returns total_edges = the sum of the sizes of the
\* first total_nodes lists, degree_min and degree_max their minimum and
\* maximum, weak_count the number of sizes below weak_threshold, and
\* degree_min <= degree_avg <= degree_max.
C1_InMemoryStats ==
  (pc = "done" /\ s.total_nodes > 0 /\ Len(args.graph) >= s.total_nodes) =>
    /\ s.total_nodes = args.nd + args.num_frozen_pts
    /\ StatsAgree(s, DegreesOf(FirstK(args.graph, s.total_nodes)), args.weak_threshold)
    /\ AvgBetween(s)

C1_Witness ==
  /\ pc = "done"
  /\ s.total_nodes = 3
  /\ Len(args.graph) = 3
  /\ s.degree_min = 1
  /\ s.degree_max = 3
  /\ s.weak_count = 2
  /\ args.weak_threshold = 3

\* C2: a GraphStats returned with total_nodes = 0 has every other numeric
\* field zero as well, entry_point and frozen_nodes included.
C2_ZeroNodesAllZero ==
  (pc = "done" /\ s.total_nodes = 0) => s = ZeroStats

\* C3: every GraphStats compute_graph_stats_from_file returns has
\* active_nodes + frozen_nodes = total_nodes.
C3_ActivePlusFrozen ==
  pc = "done" => s.active_nodes + s.frozen_nodes = s.total_nodes

\* C6: scanning a layout-A file written as header (24 + sum(4 + 4*deg_i),
\* width, ep, frozen) and N records gives total_nodes = N, total_edges = the
\* sum of the degrees, entry_point = ep, frozen_nodes = frozen, and the scan
\* stops with the byte counter equal to expected_total_size, no read failed.
C6_RoundTrip ==
  (pc = "done" /\ WellFormedA(file)) =>
    /\ s.total_nodes = Len(file.recs)
    /\ s.total_edges = SumSeq(DegreesOf(file.recs))
    /\ s.entry_point = file.hdr.ep
    /\ s.frozen_nodes = file.hdr.num_frozen_pts
    /\ loc.bytes_read = file.hdr.expected_file_size
    /\ in.good

C6_Witness ==
  /\ pc = "done"
  /\ WellFormedA(file)
  /\ file.pre = kMetadataSize
  /\ Len(file.recs) = 3
  /\ s.total_edges = 4
  /\ s.entry_point = 7
  /\ s.frozen_nodes = 1

\* C7: a well-formed layout-A file of N records cut exactly after its k-th
\* record (0 <= k < N, header unchanged) scans to total_nodes = k, with
\* total_edges, degree_min, degree_max, degree_avg and weak_count those of
\* the first k records.
C7_CutAfterRecord ==
  \A k \in 0..MaxNodes :
    (pc = "done" /\ CutAfterRecord(file, k)) =>
      StatsAgree(s, DegreesOf(FirstK(file.recs, k)), kDefaultWeakThreshold)

C7_Witness ==
  /\ pc = "done"
  /\ CutAfterRecord(file, 2)
  /\ Len(file.recs) = 3
  /\ s.total_nodes = 2
  /\ s.degree_min = 1
  /\ s.degree_max = 3

\* C8: when a layout-A file ends inside a record (degree field present, fewer
\* than degree*4 bytes after it), the scan reports only the records complete
\* before it: the cut record's degree is in none of total_nodes, total_edges,
\* degree_min, degree_max, weak_count.
C8_CutInsideRecord ==
  \A k \in 0..MaxNodes :
    (pc = "done" /\ EndsInsideRecord(file, k)) =>
      StatsAgree(s, DegreesOf(FirstK(file.recs, k)), kDefaultWeakThreshold)

\* C4: for a layout-C header that is fully readable, passes the geometry
\* check and has records_per_page = 0, compute_graph_stats_from_disk_index
\* returns total_nodes = 0, whatever n_nodes the header declares.
C4_OversizedRecordsZero ==
  (/\ pc = "done"
   /\ HeaderRead
   /\ ~GeometryRejects(loc.h, loc.esz)
   /\ loc.h.nnodes_per_sector = U64(0)) => s.total_nodes = 0

\* C5: a layout-C header with max_record_len < n_dims * element_size + 4 in
\* arithmetic that does not wrap, or max_record_len > 4096, is rejected:
\* compute_graph_stats_from_disk_index returns total_nodes = 0.
C5_GeometryRejected ==
  (/\ pc = "done"
   /\ HeaderRead
   /\ ~TrueGeometryOK(loc.h, loc.esz)) => s.total_nodes = 0

\* C9: for a layout-C file with records_per_page >= 1,
\* records_per_page * max_record_len <= 4096 and all ceil(n_nodes /
\* records_per_page) pages present, the page loop feeds the aggregator the
\* degree of each node id 0..n_nodes-1 once, in increasing order, from slot
\* id % records_per_page of page id / records_per_page, and of no other slot;
\* it reads ceil(n_nodes / records_per_page) pages and no more.
C9_PageLoopVisits ==
  PagedFileComplete =>
    LET n == ToNat(loc.h.disk_nnodes)
        nps == ToNat(loc.h.nnodes_per_sector)
    IN  /\ \E k \in 0..n : loc.fed = FirstK(ExpectedFed(n, nps), k)
        /\ loc.pages_read <= PagesNeeded(n, nps)
        /\ ~loc.wild
        /\ pc # "crashed"
        /\ pc = "done" =>
             /\ loc.fed = ExpectedFed(n, nps)
             /\ loc.pages_read = PagesNeeded(n, nps)
             /\ ReadAsWritten =>
                  StatsAgree(s, StoredDegrees(file.nodes), kDefaultWeakThreshold)

C9_Witness ==
  /\ pc = "done"
  /\ PagedFileComplete
  /\ ReadAsWritten
  /\ loc.h.disk_nnodes = U64(3)
  /\ loc.h.nnodes_per_sector = U64(2)
  /\ Len(loc.fed) = 3
  /\ loc.pages_read = 2
  /\ s.total_edges = 4

\* C10 as stated: in both small-graph renderers, with M the number of nodes
\* read, the output has M rows under a heading that reports M, row i is
\* referenced by u exactly when u < M lists i, and no edge target >= M ever
\* has a slot in the reverse structure once M is settled.
C10_NoSlotBeyondRead ==
  SmallCall =>
    /\ NodesRead <= args.num_nodes
    /\ pc = "done" => SmallOutputRight(NodesRead)
    /\ ScanOver => Len(loc.in_nbrs) <= NodesRead

\* C10, amended: in both small-graph renderers, with M the number of nodes
\* read and N the requested sample size, M <= N; the finished output has M
\* rows under a heading that reports M, and row i is referenced by u exactly
\* when u < M lists i; at every moment the reverse structure has at most N
\* slots, so no target >= N gets one, and each of its entries u under target
\* i is a node already read that lists i.  Targets in M..N-1 have slots, and
\* may have entries, until the structure is cut to M slots after the scan.
C10_SmallGraphRows ==
  SmallCall =>
    /\ NodesRead <= args.num_nodes
    /\ Len(loc.in_nbrs) <= args.num_nodes
    /\ \A i \in 1..Len(loc.in_nbrs) : \A u \in Range(loc.in_nbrs[i]) :
         u < NodesRead /\ i - 1 \in Range(loc.out_nbrs[u + 1])
    /\ pc = "done" => SmallOutputRight(NodesRead)

C10_Witness ==
  /\ pc = "done"
  /\ loc.fn = "small_disk"
  /\ NodesRead = 2
  /\ args.num_nodes = 3
  /\ Len(out) = 3
  /\ out[2].referenced_by = <<1>>
  /\ out[3].referenced_by = <<0, 1>>
  /\ 5 \in Range(loc.out_nbrs[1])
  /\ 2 \in Range(loc.out_nbrs[2])

\* C11: in both adjacency-sample printers, with max_neighbors_per_node = 0
\* every node line lists as many neighbor ids as the node's degree field
\* states and carries no "... (K total)" mark.
C11_ZeroShowsAll ==
  (AdjCall /\ args.max_neighbors_per_node = 0) =>
    \A i \in 1..Len(loc.rows) :
      /\ out[i + 1].kind = "line"
      /\ out[i + 1].total = <<>>
      /\ Len(out[i + 1].shown) = loc.rows[i].nnbrs

\* C12: the layout-C header resolver of the three disk-index readers commits
\* to the tagged variant (five u64 fields from byte offset 8) when the first
\* four bytes as a signed 32-bit value are >= 5 and the read after them
\* succeeds, and otherwise reads the five fields from byte offset 0; in both
\* variants the first page is read from byte offset 4096.
C12_ResolverVariant ==
  HoldsHeader =>
    LET b == file.hdr
        base == IF CommitsTagged(b) THEN 2 * SizeofU32 ELSE 0
    IN  /\ loc.h.tagged = CommitsTagged(b)
        /\ loc.h.good = (Len(b) >= base + 5 * SizeofU64)
        /\ loc.h.good =>
             /\ loc.h.disk_nnodes = SubSeq(b, base + 1, base + 8)
             /\ loc.h.disk_ndims = SubSeq(b, base + 9, base + 16)
             /\ loc.h.medoid_id_on_file = SubSeq(b, base + 17, base + 24)
             /\ loc.h.max_node_len = SubSeq(b, base + 25, base + 32)
             /\ loc.h.nnodes_per_sector = SubSeq(b, base + 33, base + 40)
        /\ (pc \in {"disk_page", "small_disk_page", "adj_disk_page"}
            /\ loc.sec = 0 /\ in.good) => in.pos = kDiskIndexDataOffset

C12_Witness ==
  /\ pc = "done"
  /\ loc.fn = "disk"
  /\ Len(file.hdr) = 48
  /\ file.hdr[4] = 128
  /\ ~loc.h.tagged
  /\ loc.h.good
  /\ loc.h.disk_ndims = U64(Len(file.nodes))

\* C13: when the file ends before the 24-byte layout-A header at the given
\* offset, or before the five u64 fields of the layout-C variant being
\* parsed, the call returns at once: the statistics are all zero, entry_point
\* and frozen_nodes included, and nothing is printed.
C13_ShortHeader ==
  HeaderShort =>
    /\ pc \in {"start", "done"}
    /\ s = ZeroStats
    /\ out = <<>>
    /\ loc.fn \in {"none", "disk"}
    /\ loc.fn = "disk" => ~loc.h.good

C13_Witness ==
  /\ pc = "done"
  /\ HeaderShort
  /\ args.fn = "compute_graph_stats_from_disk_index"
  /\ Len(file.hdr) = 44
  /\ CommitsTagged(file.hdr)
  /\ in.open
  /\ ~in.good

\* C14: for every header that passes the geometry check, every byte range the
\* disk-index readers copy out of the 4096-byte page buffer lies inside the
\* buffer.
C14_CopiesInsidePage == HoldsHeader => ~loc.wild

\* C15: when print_adjacency_sample_from_disk_index meets a degree field that
\* states more neighbor ids than fit before the end of the page, the ids it
\* prints are those that fit (up to max_neighbors_per_node): only the excess
\* is dropped.
C15_ClampToPage ==
  loc.fn = "adj_disk" =>
    \A i \in 1..Len(loc.rows) :
      LET fit == FitBeforePageEnd(loc.h, loc.esz, loc.rows[i].j)
      IN  loc.rows[i].nnbrs > fit =>
            Len(out[i + 1].shown)
              = Min(ToShow(args.max_neighbors_per_node, loc.rows[i].nnbrs), fit)

\* C16: for a layout-C file with a valid header whose body stops early,
\* compute_graph_stats_from_disk_index returns total_nodes = the number of
\* nodes whose degree field was read, and total_edges, degree_min and
\* degree_max over those nodes: degree_min * total_nodes <= total_edges <=
\* degree_max * total_nodes.
C16_PartialConsistent ==
  (pc = "done" /\ BodyStopsEarly) =>
    /\ s.total_nodes = Len(loc.fed)
    /\ s.degree_min * s.total_nodes <= s.total_edges
    /\ s.total_edges <= s.degree_max * s.total_nodes

\* C17: the statistics do not depend on the order of the records: what
\* compute_graph_stats_from_file returns for a well-formed file, and
\* compute_graph_stats for the first nd + num_frozen_pts lists of a graph, is
\* what the scan gives for every permutation of those records; the header
\* fields of the result come from the header alone.
C17_OrderIndependent ==
  /\ (pc = "done" /\ loc.fn = "file" /\ WellFormedA(file)) =>
       /\ \A p \in Perms(Len(file.recs)) :
            DegreeFields(s)
              = ScanResult(Permuted(DegreesOf(file.recs), p), kDefaultWeakThreshold)
       /\ s.entry_point = file.hdr.ep
       /\ s.frozen_nodes = file.hdr.num_frozen_pts
       /\ s.active_nodes = ActiveOf(Len(file.recs), file.hdr.num_frozen_pts)
  /\ (pc = "done" /\ args.fn = "compute_graph_stats"
      /\ args.nd + args.num_frozen_pts <= Len(args.graph)) =>
       /\ \A p \in Perms(args.nd + args.num_frozen_pts) :
            DegreeFields(s)
              = ScanResult(Permuted(DegreesOf(FirstK(args.graph,
                                                     args.nd + args.num_frozen_pts)), p),
                           args.weak_threshold)
       /\ s.entry_point = args.ep
       /\ s.frozen_nodes = args.num_frozen_pts
       /\ s.active_nodes = args.nd

C17_Witness ==
  /\ pc = "done"
  /\ loc.fn = "file"
  /\ WellFormedA(file)
  /\ DegreesOf(file.recs) = <<3, 0, 1>>
  /\ s.degree_max = 3
  /\ s.degree_min = 0
  /\ s.total_edges = 4

\* C18: for every file and every header value of expected_total_size the
\* scan loop of compute_graph_stats_from_file comes to an end and the call
\* returns; when the loop has stopped, bytes_read equals expected_total_size
\* or a read has failed, and the result counts the degree fields read.
C18_ScanTerminates ==
  /\ <>(pc = "done")
  /\ []((pc = "done" /\ loc.fn = "file") =>
          /\ (loc.bytes_read = loc.expected_file_size \/ ~in.good)
          /\ s.total_nodes = loc.nodes)

C18_Witness ==
  /\ pc = "done"
  /\ loc.fn = "file"
  /\ loc.expected_file_size = 0
  /\ loc.bytes_read # loc.expected_file_size
  /\ loc.nodes = 2
  /\ ~in.good

\* C19: in print_small_graph_from_disk_index the label of every row, which
\* is its position in read order, is the node id page * records_per_page +
\* slot of the record the row shows, for every header that passes the
\* geometry check.
C19_RowIsNodeId ==
  loc.fn = "small_disk" =>
    \A i \in 1..Len(loc.rows) : loc.rows[i].id = i - 1

=============================================================================
